---- MODULE Spec2Model ----
(***************************************************************************)
(* PlayMix: selection of the active MPRIS player (find_active_player),     *)
(* ordinal matching of a sink input to an MPRIS instance                   *)
(* (get_album_art_for_sink_input) and the per-instance dial selection      *)
(* (VolumeDialAction).                                                     *)
(*                                                                         *)
(* Bus names are sequences of byte codes.  The constant prefix             *)
(* "org.mpris.MediaPlayer2." is written as the single leading code 0; the  *)
(* remaining codes are ASCII, so that the order of sequences is the order  *)
(* of Rust strings.                                                        *)
(***************************************************************************)
EXTENDS Integers, Sequences, FiniteSets, TLC

VARIABLES
    busNames,            \* names registered on the session bus, in ListNames order
    status,              \* answer of each name to the PlaybackStatus query
    art,                 \* whether a name's Metadata yields album art
    LAST_ACTIVE_PLAYER,  \* main.rs:23
    sinkInputs,          \* sink inputs of the mixer, in pactl's listing order
    DIAL_STATES,         \* main.rs:20, instance id -> <<index, sink input id>>
    ENCODER_PRESSED,     \* main.rs:17
    lastCall,            \* the call that has just returned and its outcome; Idle otherwise
    observedPlaying,     \* history: handles a find_active_player call found Playing
    visible,             \* instance ids of the surfaces the host currently shows
    ppImage,             \* image last pushed to the visible PlayPause surfaces
    loopPc,              \* position of the watch_album_art task
    loop_player,         \* main.rs:294, player_name of watch_album_art, the handle the loop selected
    matchRules,          \* senders of the PropertiesChanged rules added to the loop's connection
    nameOwnerRule,       \* whether the NameOwnerChanged rule is added to the loop's connection
    connected,           \* whether the loop's bus connection is open
    stream,              \* messages queued in the loop's MessageStream
    payloads             \* the bytes behind each file path and remote URL

vars == <<busNames, status, art, LAST_ACTIVE_PLAYER, sinkInputs, DIAL_STATES,
          ENCODER_PRESSED, lastCall, observedPlaying, visible, ppImage,
          loopPc, loop_player, matchRules, nameOwnerRule, connected, stream, payloads>>

loopCtl == <<loopPc, loop_player, matchRules, nameOwnerRule, connected>>
loopVars == <<loopCtl, stream>>

(***************************************************************************)
(* Bounds                                                                  *)
(***************************************************************************)
MaxBus == 3
MaxSinks == 2
MaxSinkId == 2
MaxTicks == 1
MaxPayload == 3
MaxStream == 1

(***************************************************************************)
(* Names, applications, values                                             *)
(***************************************************************************)
\* codes: 97 'a', 65 'A', 98 'b', 49 '1', 112 'p', 58 ':'
\* <<0, 97>> and <<0, 97, 49>> are two instances of the application "a" (or "A"),
\* <<0, 98>> a player of another application, <<58>> a name that is no player.
\* A sink input is [id, binary]; the applications in MediaBinaries are the
\* ones is_media_app accepts.  Sink input ids start at 1; 0 stands for master.
MPRIS_PREFIX == <<0>>
PLAYERCTLD == <<0, 112>>
BusNameUniverse == { <<0, 97>>, <<0, 97, 49>>, <<0, 98>>, PLAYERCTLD, <<58>> }
BinaryUniverse == { <<97>>, <<65>> }
MediaBinaries == { <<97>> }
Statuses == { "Playing", "Paused", "Stopped", "NoReply" }
SinkIds == 1..MaxSinkId
Instances == { "dial-1", "dial-2" }
TestInstances == { "test-1" }
PlayPauseInstances == { "key-1" }
Methods == { "PlayPause", "Stop", "Previous", "Next" }
Ticks == { t \in (0 - MaxTicks)..MaxTicks : t # 0 }
None == <<>>
Idle == [op |-> "none"]
NoEntry == <<>>
NoImage == [kind |-> "none", from |-> None]

Ok(n) == [ok |-> TRUE, name |-> n, err |-> ""]
Err(e) == [ok |-> FALSE, name |-> None, err |-> e]

(***************************************************************************)
(* String helpers                                                          *)
(***************************************************************************)
StartsWith(s, p) == Len(s) >= Len(p) /\ SubSeq(s, 1, Len(p)) = p

to_lowercase(s) == [i \in 1..Len(s) |-> IF s[i] >= 65 /\ s[i] <= 90 THEN s[i] + 32 ELSE s[i]]

RECURSIVE StrLess(_, _)
StrLess(a, b) ==
    IF a = <<>> THEN b # <<>>
    ELSE IF b = <<>> THEN FALSE
    ELSE IF Head(a) # Head(b) THEN Head(a) < Head(b)
    ELSE StrLess(Tail(a), Tail(b))

Contains(s, x) == \E i \in 1..Len(s) : s[i] = x

InsertAt(s, pos, x) == SubSeq(s, 1, pos - 1) \o <<x>> \o SubSeq(s, pos, Len(s))

RemoveAt(s, pos) == SubSeq(s, 1, pos - 1) \o SubSeq(s, pos + 1, Len(s))

(***************************************************************************)
(* find_active_player                                                      *)
(***************************************************************************)
IsMprisPlayer(name) == StartsWith(name, MPRIS_PREFIX) /\ name # PLAYERCTLD

\* Variants of find_active_player with one step changed.
find_active_player_variant(listNames, st, last, v) ==
    IF ~listNames.ok THEN [result |-> Err("TransportFailure"), last |-> last]
    ELSE
    LET mpris_players == SelectSeq(listNames.names, IsMprisPlayer)
        IsPlaying(n) == st[n] = "Playing"
        playing == SelectSeq(mpris_players, IsPlaying)
    IN  IF playing # <<>>
        THEN [result |-> Ok(Head(playing)),
              last |-> IF v = "no_record" THEN last ELSE Head(playing)]
        ELSE IF v # "skip_last" /\ last # None
                /\ (v = "no_contains" \/ Contains(mpris_players, last))
        THEN [result |-> Ok(last), last |-> last]
        ELSE IF mpris_players # <<>>
        THEN [result |-> Ok(IF v = "last_candidate"
                            THEN mpris_players[Len(mpris_players)]
                            ELSE Head(mpris_players)),
              last |-> IF v = "record_fallback" THEN Head(mpris_players) ELSE last]
        ELSE [result |-> Err("NoPlayerFound"), last |-> last]

find_active_player_no_record(listNames, st, last) ==
    find_active_player_variant(listNames, st, last, "no_record")

find_active_player_skip_last(listNames, st, last) ==
    find_active_player_variant(listNames, st, last, "skip_last")

find_active_player_last_candidate(listNames, st, last) ==
    find_active_player_variant(listNames, st, last, "last_candidate")

find_active_player_record_fallback(listNames, st, last) ==
    find_active_player_variant(listNames, st, last, "record_fallback")

find_active_player_no_contains(listNames, st, last) ==
    find_active_player_variant(listNames, st, last, "no_contains")

find_active_player(listNames, st, last) ==
    IF ~listNames.ok THEN [result |-> Err("TransportFailure"), last |-> last]
    ELSE
    LET mpris_players == SelectSeq(listNames.names, IsMprisPlayer)
        IsPlaying(n) == st[n] = "Playing"
        playing == SelectSeq(mpris_players, IsPlaying)
    IN  IF playing # <<>>
        THEN [result |-> Ok(Head(playing)), last |-> Head(playing)]
        ELSE IF last # None /\ Contains(mpris_players, last)
        THEN [result |-> Ok(last), last |-> last]
        ELSE IF mpris_players # <<>>
        THEN [result |-> Ok(Head(mpris_players)), last |-> last]
        ELSE [result |-> Err("NoPlayerFound"), last |-> last]

(***************************************************************************)
(* get_album_art_for_sink_input                                            *)
(***************************************************************************)
RECURSIVE SortIds(_)
SortIds(s) ==
    IF s = <<>> THEN <<>>
    ELSE LET rest == SortIds(Tail(s))
             IsBefore(x) == x <= Head(s)
             IsAfter(x) == x > Head(s)
         IN  SelectSeq(rest, IsBefore) \o <<Head(s)>> \o SelectSeq(rest, IsAfter)

RECURSIVE SortNames(_)
SortNames(s) ==
    IF s = <<>> THEN <<>>
    ELSE LET rest == SortNames(Tail(s))
             IsAfter(x) == StrLess(Head(s), x)
             IsBefore(x) == ~StrLess(Head(s), x)
         IN  SelectSeq(rest, IsBefore) \o <<Head(s)>> \o SelectSeq(rest, IsAfter)

\* position of x in s, counted from 0; -1 when x is not in s
Position(s, x) ==
    IF Contains(s, x) THEN (CHOOSE i \in 1..Len(s) : s[i] = x /\ \A j \in 1..(i - 1) : s[j] # x) - 1
    ELSE 0 - 1

find_mpris_players_for_app(listNames, app_name) ==
    IF ~listNames.ok THEN <<>>
    ELSE LET search_pattern == MPRIS_PREFIX \o to_lowercase(app_name)
             Matches(name) == StartsWith(name, search_pattern)
         IN  SelectSeq(listNames.names, Matches)

\* the art obtained from a player: the player it comes from, or None
get_album_art_from_player(player_name, arts) ==
    IF arts[player_name] THEN player_name ELSE None

\* ids of the listed sink inputs whose application.process.binary is process_binary
ParseSinkInputs(listing, process_binary) ==
    LET IsApp(e) == e.binary = process_binary
        matching == SelectSeq(listing, IsApp)
    IN  [i \in 1..Len(matching) |-> matching[i].id]

NoMatch == [art |-> None, matched |-> None]

\* Variants of get_album_art_for_sink_input with one step changed.
get_album_art_for_sink_input_variant(sink_input_id, process_binary, pactl, listNames, arts, v) ==
    IF ~pactl.ok THEN NoMatch
    ELSE
    LET parsed == ParseSinkInputs(pactl.list, process_binary)
        sink_inputs == SortIds(parsed)
        sink_index == Position(sink_inputs, sink_input_id)
        found == find_mpris_players_for_app(listNames, process_binary)
        mpris_players == IF v = "unsorted_players" THEN found ELSE SortNames(found)
        HasArt(n) == arts[n]
        withArt == SelectSeq(mpris_players, HasArt)
    IN  IF sink_index < 0 THEN NoMatch
        ELSE IF v # "no_len_check" /\ Len(sink_inputs) > Len(mpris_players) THEN NoMatch
        ELSE IF sink_index < Len(mpris_players)
                /\ get_album_art_from_player(mpris_players[sink_index + 1], arts) # None
        THEN [art |-> get_album_art_from_player(mpris_players[sink_index + 1], arts),
              matched |-> mpris_players[sink_index + 1]]
        ELSE [art |-> IF withArt # <<>> THEN get_album_art_from_player(Head(withArt), arts) ELSE None,
              matched |-> IF sink_index < Len(mpris_players)
                          THEN mpris_players[sink_index + 1] ELSE None]

get_album_art_for_sink_input_no_len_check(sink_input_id, process_binary, pactl, listNames, arts) ==
    get_album_art_for_sink_input_variant(sink_input_id, process_binary, pactl, listNames, arts, "no_len_check")

get_album_art_for_sink_input_unsorted_players(sink_input_id, process_binary, pactl, listNames, arts) ==
    get_album_art_for_sink_input_variant(sink_input_id, process_binary, pactl, listNames, arts, "unsorted_players")

\* art: the player whose art is returned (None: the function returns None);
\* matched: the player matched by index (main.rs:234), None when none was
get_album_art_for_sink_input(sink_input_id, process_binary, pactl, listNames, arts) ==
    IF ~pactl.ok THEN NoMatch
    ELSE
    LET sink_inputs == SortIds(ParseSinkInputs(pactl.list, process_binary))
        sink_index == Position(sink_inputs, sink_input_id)
        mpris_players == SortNames(find_mpris_players_for_app(listNames, process_binary))
        HasArt(n) == get_album_art_from_player(n, arts) # None
        withArt == SelectSeq(mpris_players, HasArt)
    IN  IF sink_index < 0 THEN NoMatch
        ELSE IF Len(sink_inputs) > Len(mpris_players) THEN NoMatch
        ELSE IF sink_index < Len(mpris_players)
                /\ get_album_art_from_player(mpris_players[sink_index + 1], arts) # None
        THEN [art |-> get_album_art_from_player(mpris_players[sink_index + 1], arts),
              matched |-> mpris_players[sink_index + 1]]
        ELSE [art |-> IF withArt # <<>> THEN get_album_art_from_player(Head(withArt), arts) ELSE None,
              matched |-> IF sink_index < Len(mpris_players)
                          THEN mpris_players[sink_index + 1] ELSE None]

(***************************************************************************)
(* update_dial_image_for_selected_sink                                     *)
(***************************************************************************)
RECURSIVE Digits(_)
Digits(n) == IF n < 10 THEN <<n>> ELSE Digits(n \div 10) \o <<n % 10>>

\* the listing from the first entry whose header line contains "Sink Input #<selected>"
SkipToSelected(listing, selected) ==
    LET Hits == { i \in 1..Len(listing) : StartsWith(Digits(listing[i].id), Digits(selected)) }
    IN  IF Hits = {} THEN <<>>
        ELSE SubSeq(listing, CHOOSE i \in Hits : \A j \in Hits : i <= j, Len(listing))

is_media_app(process_binary) == process_binary \in MediaBinaries

\* the image pushed to the instance; NoImage when no image is set
update_dial_image_for_selected_sink(selected, pactl, listNames, arts, iconOk) ==
    LET icon(kind) == IF iconOk THEN [kind |-> kind, from |-> None] ELSE NoImage
    IN  IF selected = 0 THEN icon("volume")
        ELSE IF ~pactl.ok THEN NoImage
        ELSE LET lines == SkipToSelected(pactl.list, selected)
                 process_binary == IF lines = <<>> THEN <<>> ELSE Head(lines).binary
                 album_art == IF lines # <<>> /\ is_media_app(process_binary)
                              THEN get_album_art_for_sink_input(selected, process_binary,
                                                                pactl, listNames, arts).art
                              ELSE None
             IN  IF album_art # None THEN [kind |-> "art", from |-> album_art]
                 ELSE icon("icon")

(***************************************************************************)
(* VolumeDialAction::dial_rotate                                           *)
(***************************************************************************)
StoredIndex(states, instance_id) ==
    IF states[instance_id] = NoEntry THEN 0 ELSE states[instance_id][1]

StoredSink(states, instance_id) ==
    IF states[instance_id] = NoEntry THEN 0 ELSE states[instance_id][2]

\* new_index without the wrap at the last index
NewIndex_no_wrap(current_index, ticks, total_items) ==
    IF ticks > 0 THEN current_index + 1
    ELSE IF current_index = 0 THEN total_items - 1
    ELSE current_index - 1

NewIndex(current_index, ticks, total_items) ==
    IF ticks > 0 THEN (current_index + 1) % total_items
    ELSE IF current_index = 0 THEN total_items - 1
    ELSE current_index - 1

SelectedSinkInputId(new_index, sink_inputs) ==
    IF new_index = 0 THEN 0
    ELSE IF new_index - 1 < Len(sink_inputs) THEN sink_inputs[new_index].id
    ELSE 0

\* the volume command of a rotation in volume-adjust mode
VolumeCommand(selected, ticks) ==
    LET percent == (IF ticks < 0 THEN 0 - ticks ELSE ticks) * 5
    IN  [tool |-> IF selected = 0 THEN "wpctl" ELSE "pactl",
         target |-> selected,
         change |-> IF ticks > 0 THEN percent ELSE 0 - percent]

(***************************************************************************)
(* fetch_and_convert_to_data_url.  A string is a sequence of symbols: the  *)
(* negative ones stand for the literal pieces the code tests or writes,    *)
(* 0..63 for the base64 alphabet, 64 for the pad '='.  A payload is a      *)
(* sequence of bytes.                                                      *)
(***************************************************************************)
DATA == 0 - 1           \* "data:"
FILE == 0 - 2           \* "file:"
SLASHES == 0 - 3        \* "//"
HTTP == 0 - 4           \* "http:"
BASE64_MARK == 0 - 5    \* ";base64,"
MIME_OCTET == 0 - 6     \* "application/octet-stream"
MIME_JPEG == 0 - 7      \* "image/jpeg"
PATH == 0 - 8           \* a path
PAD == 64

Bytes == { 0, 216, 255 }
Payloads == UNION { [1..n -> Bytes] : n \in 0..MaxPayload }
Missing == << 0 - 1 >>
Locations == { <<PATH>>, <<HTTP, SLASHES, PATH>> }
UrlUniverse == { <<DATA>>, <<DATA, MIME_JPEG, BASE64_MARK, 63, 54, 64, 64>>,
                 <<FILE, SLASHES, PATH>>, <<FILE, SLASHES, FILE, SLASHES, PATH>>,
                 <<FILE, PATH>>, <<HTTP, SLASHES, PATH>> }

\* url.trim_start_matches("file://")
RECURSIVE trim_start_matches(_)
trim_start_matches(s) ==
    IF Len(s) >= 2 /\ s[1] = FILE /\ s[2] = SLASHES
    THEN trim_start_matches(SubSeq(s, 3, Len(s)))
    ELSE s

\* infer::get(&bytes): the JPEG signature FF D8 FF, else no type is known
mime_type(bytes) ==
    IF Len(bytes) > 2 /\ bytes[1] = 255 /\ bytes[2] = 216 /\ bytes[3] = 255
    THEN MIME_JPEG
    ELSE MIME_OCTET

\* general_purpose::STANDARD.encode(&bytes)
RECURSIVE Base64Encode(_)
Base64Encode(bytes) ==
    IF Len(bytes) = 0 THEN <<>>
    ELSE IF Len(bytes) = 1
         THEN << bytes[1] \div 4, (bytes[1] % 4) * 16, PAD, PAD >>
    ELSE IF Len(bytes) = 2
         THEN << bytes[1] \div 4, (bytes[1] % 4) * 16 + bytes[2] \div 16,
                 (bytes[2] % 16) * 4, PAD >>
    ELSE << bytes[1] \div 4, (bytes[1] % 4) * 16 + bytes[2] \div 16,
            (bytes[2] % 16) * 4 + bytes[3] \div 64, bytes[3] % 64 >>
         \o Base64Encode(SubSeq(bytes, 4, Len(bytes)))

FetchOk(v) == [ok |-> TRUE, value |-> v]
FetchErr == [ok |-> FALSE, value |-> <<>>]

\* std::fs::read(path) and reqwest::get(url): the bytes at the location, or a failure
ReadLocation(store, loc) ==
    IF loc \in DOMAIN store /\ store[loc] # Missing THEN FetchOk(store[loc]) ELSE FetchErr

\* a variant that refuses an empty payload
fetch_and_convert_to_data_url_nonempty(url, store) ==
    IF url # <<>> /\ Head(url) = DATA THEN FetchOk(url)
    ELSE LET read == IF url # <<>> /\ Head(url) = FILE
                     THEN ReadLocation(store, trim_start_matches(url))
                     ELSE ReadLocation(store, url)
         IN  IF ~read.ok \/ read.value = <<>> THEN FetchErr
             ELSE FetchOk(<<DATA, mime_type(read.value), BASE64_MARK>> \o Base64Encode(read.value))

fetch_and_convert_to_data_url(url, store) ==
    IF url # <<>> /\ Head(url) = DATA THEN FetchOk(url)
    ELSE LET read == IF url # <<>> /\ Head(url) = FILE
                     THEN ReadLocation(store, trim_start_matches(url))
                     ELSE ReadLocation(store, url)
         IN  IF ~read.ok THEN FetchErr
             ELSE FetchOk(<<DATA, mime_type(read.value), BASE64_MARK>> \o Base64Encode(read.value))

(***************************************************************************)
(* The full refresh.  Metadata is None (the property could not be read) or *)
(* a record whose artUrl is None or the handle the art belongs to; an      *)
(* image is NoImage (nothing pushed yet), cleared, or the art of a handle. *)
(***************************************************************************)
NoMetadata == [present |-> FALSE, artUrl |-> None]
MetadataOf(n, arts) == [present |-> TRUE, artUrl |-> IF arts[n] THEN n ELSE None]
Cleared == [kind |-> "cleared", from |-> None]
ArtImage(n) == [kind |-> "art", from |-> n]

\* the data URL of the art a Metadata value carries, None without one
get_album_art(metadata, fetchOk) ==
    IF ~metadata.present THEN None
    ELSE IF metadata.artUrl = None THEN None
    ELSE IF fetchOk THEN metadata.artUrl ELSE None

\* instance.set_image(image, None): None clears the image of the surface
update_play_pause(image) ==
    IF image = None THEN Cleared ELSE ArtImage(image)

get_mpris_proxy(listNames, st, last) ==
    find_active_player(listNames, st, last)

update_all(listNames, st, last, arts, fetchOk, shown, image) ==
    LET proxy_result == get_mpris_proxy(listNames, st, last)
        metadata == IF proxy_result.result.ok /\ st[proxy_result.result.name] # "NoReply"
                    THEN MetadataOf(proxy_result.result.name, arts)
                    ELSE NoMetadata
    IN  [result |-> proxy_result.result, last |-> proxy_result.last,
         image |-> IF shown THEN update_play_pause(get_album_art(metadata, fetchOk))
                   ELSE image]

\* the method call a key sends: to the handle get_mpris_proxy selects
NoCommand == [to |-> None, method |-> ""]
call_mpris_method(method, listNames, st, last) ==
    LET proxy == get_mpris_proxy(listNames, st, last)
    IN  [result |-> proxy.result, last |-> proxy.last,
         command |-> IF proxy.result.ok
                     THEN [to |-> proxy.result.name, method |-> method]
                     ELSE NoCommand]

(***************************************************************************)
(* Signals.  The bus sends a signal to the loop's connection when a match  *)
(* rule added on it matches; the loop sees it when its MessageStream       *)
(* exists, that is while it is in the receive loop.                        *)
(***************************************************************************)
PLAYER_INTERFACE == "org.mpris.MediaPlayer2.Player"
ROOT_INTERFACE == "org.mpris.MediaPlayer2"
NoPlayback == "absent"

NameOwnerChanged(name, gone) ==
    [member |-> "NameOwnerChanged", name |-> name, new_owner_is_empty |-> gone]

PropertiesChanged(sender, interface, playback, metadata) ==
    [member |-> "PropertiesChanged", sender |-> sender, interface |-> interface,
     PlaybackStatus |-> playback, Metadata |-> metadata]

\* the rules added by add_match_rule that let the bus send msg to the loop
RuleMatches(msg) ==
    IF msg.member = "NameOwnerChanged" THEN nameOwnerRule ELSE msg.sender \in matchRules

Delivered(msg) == connected /\ loopPc = "receive" /\ RuleMatches(msg)

\* the queue has room for the signal when the signal is delivered
CanEmit(msg) == Delivered(msg) => Len(stream) < MaxStream

Emit(msg) == IF Delivered(msg) THEN Append(stream, msg) ELSE stream

(***************************************************************************)
(* The environment: players and sink inputs come and go                    *)
(***************************************************************************)
PlayerAppear(n, pos) ==
    /\ lastCall = Idle
    /\ Len(busNames) < MaxBus
    /\ ~Contains(busNames, n)
    /\ busNames' = InsertAt(busNames, pos, n)
    /\ status' = [status EXCEPT ![n] = IF StartsWith(n, MPRIS_PREFIX) THEN "Stopped" ELSE "NoReply"]
    /\ CanEmit(NameOwnerChanged(n, FALSE))
    /\ stream' = Emit(NameOwnerChanged(n, FALSE))
    /\ UNCHANGED <<lastCall, art, LAST_ACTIVE_PLAYER, sinkInputs, DIAL_STATES, ENCODER_PRESSED, observedPlaying, visible, ppImage, loopCtl, payloads>>

PlayerDisappear(pos) ==
    /\ lastCall = Idle
    /\ pos \in 1..Len(busNames)
    /\ busNames' = RemoveAt(busNames, pos)
    /\ status' = [status EXCEPT ![busNames[pos]] = "NoReply"]
    /\ art' = [art EXCEPT ![busNames[pos]] = FALSE]
    /\ CanEmit(NameOwnerChanged(busNames[pos], TRUE))
    /\ stream' = Emit(NameOwnerChanged(busNames[pos], TRUE))
    /\ UNCHANGED <<lastCall, LAST_ACTIVE_PLAYER, sinkInputs, DIAL_STATES, ENCODER_PRESSED, observedPlaying, visible, ppImage, loopCtl, payloads>>

PlayerSetStatus(n, s) ==
    /\ lastCall = Idle
    /\ Contains(busNames, n)
    /\ StartsWith(n, MPRIS_PREFIX)
    /\ status[n] # s
    /\ status' = [status EXCEPT ![n] = s]
    /\ CanEmit(PropertiesChanged(n, PLAYER_INTERFACE, s, NoMetadata))
    /\ stream' = Emit(PropertiesChanged(n, PLAYER_INTERFACE, s, NoMetadata))
    /\ UNCHANGED <<lastCall, busNames, art, LAST_ACTIVE_PLAYER, sinkInputs, DIAL_STATES, ENCODER_PRESSED, observedPlaying, visible, ppImage, loopCtl, payloads>>

PlayerSetArt(n, b) ==
    /\ lastCall = Idle
    /\ Contains(busNames, n)
    /\ StartsWith(n, MPRIS_PREFIX)
    /\ art[n] # b
    /\ art' = [art EXCEPT ![n] = b]
    /\ CanEmit(PropertiesChanged(n, PLAYER_INTERFACE, NoPlayback, [present |-> TRUE, artUrl |-> IF b THEN n ELSE None]))
    /\ stream' = Emit(PropertiesChanged(n, PLAYER_INTERFACE, NoPlayback, [present |-> TRUE, artUrl |-> IF b THEN n ELSE None]))
    /\ UNCHANGED <<lastCall, busNames, status, LAST_ACTIVE_PLAYER, sinkInputs, DIAL_STATES, ENCODER_PRESSED, observedPlaying, visible, ppImage, loopCtl, payloads>>

\* a property of the root interface of a player changes
PlayerRootChanged(n) ==
    /\ lastCall = Idle
    /\ Contains(busNames, n)
    /\ StartsWith(n, MPRIS_PREFIX)
    /\ Delivered(PropertiesChanged(n, ROOT_INTERFACE, NoPlayback, NoMetadata))
    /\ CanEmit(PropertiesChanged(n, ROOT_INTERFACE, NoPlayback, NoMetadata))
    /\ stream' = Emit(PropertiesChanged(n, ROOT_INTERFACE, NoPlayback, NoMetadata))
    /\ UNCHANGED <<lastCall, busNames, status, art, LAST_ACTIVE_PLAYER, sinkInputs, DIAL_STATES,
                   ENCODER_PRESSED, observedPlaying, visible, ppImage, loopCtl, payloads>>

SinkInputAppear(id, binary, pos) ==
    /\ lastCall = Idle
    /\ Len(sinkInputs) < MaxSinks
    /\ \A i \in 1..Len(sinkInputs) : sinkInputs[i].id # id
    /\ sinkInputs' = InsertAt(sinkInputs, pos, [id |-> id, binary |-> binary])
    /\ UNCHANGED <<lastCall, busNames, status, art, LAST_ACTIVE_PLAYER, DIAL_STATES, ENCODER_PRESSED, observedPlaying, visible, ppImage, loopVars, payloads>>

SinkInputDisappear(pos) ==
    /\ lastCall = Idle
    /\ pos \in 1..Len(sinkInputs)
    /\ sinkInputs' = RemoveAt(sinkInputs, pos)
    /\ UNCHANGED <<lastCall, busNames, status, art, LAST_ACTIVE_PLAYER, DIAL_STATES, ENCODER_PRESSED, observedPlaying, visible, ppImage, loopVars, payloads>>

(***************************************************************************)
(* A task calls find_active_player                                         *)
(***************************************************************************)
FindActivePlayer(busOk) ==
    LET r == find_active_player([ok |-> busOk, names |-> busNames], status, LAST_ACTIVE_PLAYER)
    IN  /\ lastCall = Idle
        /\ LAST_ACTIVE_PLAYER' = r.last
        /\ lastCall' = [op |-> "find_active_player", result |-> r.result,
                        last_before |-> LAST_ACTIVE_PLAYER]
        /\ observedPlaying' = IF r.result.ok /\ status[r.result.name] = "Playing"
                              THEN observedPlaying \cup {r.result.name}
                              ELSE observedPlaying
        /\ UNCHANGED <<busNames, status, art, sinkInputs, DIAL_STATES, ENCODER_PRESSED, visible, ppImage, loopVars, payloads>>

(***************************************************************************)
(* A task calls get_album_art_for_sink_input                               *)
(***************************************************************************)
GetAlbumArtForSinkInput(sink_input_id, process_binary, pactlOk, busOk) ==
    LET r == get_album_art_for_sink_input(sink_input_id, process_binary,
                                          [ok |-> pactlOk, list |-> sinkInputs],
                                          [ok |-> busOk, names |-> busNames], art)
    IN  /\ lastCall = Idle
        /\ lastCall' = [op |-> "get_album_art_for_sink_input",
                        sink_input_id |-> sink_input_id, process_binary |-> process_binary,
                        pactlOk |-> pactlOk, busOk |-> busOk, result |-> r]
        /\ UNCHANGED <<busNames, status, art, LAST_ACTIVE_PLAYER, sinkInputs, DIAL_STATES,
                       ENCODER_PRESSED, observedPlaying, visible, ppImage, loopVars, payloads>>

(***************************************************************************)
(* The dial handlers                                                       *)
(***************************************************************************)
\* a variant of the insert that writes the entry under every key
InsertDialState_shared(states, instance_id, entry) ==
    [i \in DOMAIN states |-> entry]

\* states.insert(instance_id, (new_index, sink_input_id))
InsertDialState(states, instance_id, entry) ==
    [states EXCEPT ![instance_id] = entry]

\* the mode a rotation of the surface runs in: the test of the pressed flag
RotationMode(instance_id) ==
    IF ENCODER_PRESSED THEN "browse" ELSE "adjust"

DialRotate(instance_id, ticks, pactlOk, pactlImageOk, busOk, iconOk) ==
    /\ lastCall = Idle
    /\ instance_id \in visible
    /\ IF RotationMode(instance_id) = "browse"
       THEN IF pactlOk
            THEN LET sink_inputs == sinkInputs
                     total_items == Len(sink_inputs) + 1
                     current_index == StoredIndex(DIAL_STATES, instance_id)
                     new_index == NewIndex(current_index, ticks, total_items)
                     sink_input_id == SelectedSinkInputId(new_index, sink_inputs)
                     image == update_dial_image_for_selected_sink(
                                  sink_input_id, [ok |-> pactlImageOk, list |-> sinkInputs],
                                  [ok |-> busOk, names |-> busNames], art, iconOk)
                 IN  /\ DIAL_STATES' = InsertDialState(DIAL_STATES, instance_id, <<new_index, sink_input_id>>)
                     /\ lastCall' = [op |-> "dial_rotate", instance_id |-> instance_id, ticks |-> ticks,
                                     mode |-> "browse", listed |-> TRUE,
                                     current_index |-> current_index, image |-> image]
                     /\ UNCHANGED <<busNames, status, art, LAST_ACTIVE_PLAYER, sinkInputs,
                                    ENCODER_PRESSED, observedPlaying, visible, ppImage, loopVars, payloads>>
            ELSE /\ lastCall' = [op |-> "dial_rotate", instance_id |-> instance_id, ticks |-> ticks,
                                 mode |-> "browse", listed |-> FALSE,
                                 current_index |-> StoredIndex(DIAL_STATES, instance_id),
                                 image |-> NoImage]
                 /\ UNCHANGED <<busNames, status, art, LAST_ACTIVE_PLAYER, sinkInputs, DIAL_STATES,
                                ENCODER_PRESSED, observedPlaying, visible, ppImage, loopVars, payloads>>
       ELSE /\ lastCall' = [op |-> "dial_rotate", instance_id |-> instance_id, ticks |-> ticks,
                            mode |-> "adjust",
                            command |-> VolumeCommand(StoredSink(DIAL_STATES, instance_id), ticks)]
            /\ UNCHANGED <<busNames, status, art, LAST_ACTIVE_PLAYER, sinkInputs, DIAL_STATES,
                           ENCODER_PRESSED, observedPlaying, visible, ppImage, loopVars, payloads>>

DialDown(instance_id) ==
    /\ lastCall = Idle
    /\ instance_id \in visible
    /\ ENCODER_PRESSED' = TRUE
    /\ lastCall' = [op |-> "dial_down", instance_id |-> instance_id]
    /\ UNCHANGED <<busNames, status, art, LAST_ACTIVE_PLAYER, sinkInputs, DIAL_STATES,
                   observedPlaying, visible, ppImage, loopVars, payloads>>

\* a variant of the release that also forgets the surface's entry
DialUp_reset(instance_id) ==
    /\ lastCall = Idle
    /\ instance_id \in visible
    /\ ENCODER_PRESSED' = FALSE
    /\ DIAL_STATES' = [DIAL_STATES EXCEPT ![instance_id] = NoEntry]
    /\ lastCall' = [op |-> "dial_up", instance_id |-> instance_id]
    /\ UNCHANGED <<busNames, status, art, LAST_ACTIVE_PLAYER, sinkInputs,
                   observedPlaying, visible, ppImage, loopVars, payloads>>

DialUp(instance_id) ==
    /\ lastCall = Idle
    /\ instance_id \in visible
    /\ ENCODER_PRESSED' = FALSE
    /\ lastCall' = [op |-> "dial_up", instance_id |-> instance_id]
    /\ UNCHANGED <<busNames, status, art, LAST_ACTIVE_PLAYER, sinkInputs, DIAL_STATES,
                   observedPlaying, visible, ppImage, loopVars, payloads>>

(***************************************************************************)
(* The handlers of the test dial: they write the same pressed flag         *)
(***************************************************************************)
DialTestRotate(instance_id, ticks) ==
    /\ lastCall = Idle
    /\ instance_id \in visible
    /\ lastCall' = [op |-> "dial_test_rotate", instance_id |-> instance_id, ticks |-> ticks]
    /\ UNCHANGED <<busNames, status, art, LAST_ACTIVE_PLAYER, sinkInputs, DIAL_STATES,
                   ENCODER_PRESSED, observedPlaying, visible, ppImage, loopVars, payloads>>

DialTestDown(instance_id) ==
    /\ lastCall = Idle
    /\ instance_id \in visible
    /\ ENCODER_PRESSED' = TRUE
    /\ lastCall' = [op |-> "dial_down", instance_id |-> instance_id]
    /\ UNCHANGED <<busNames, status, art, LAST_ACTIVE_PLAYER, sinkInputs, DIAL_STATES,
                   observedPlaying, visible, ppImage, loopVars, payloads>>

DialTestUp(instance_id) ==
    /\ lastCall = Idle
    /\ instance_id \in visible
    /\ ENCODER_PRESSED' = FALSE
    /\ lastCall' = [op |-> "dial_up", instance_id |-> instance_id]
    /\ UNCHANGED <<busNames, status, art, LAST_ACTIVE_PLAYER, sinkInputs, DIAL_STATES,
                   observedPlaying, visible, ppImage, loopVars, payloads>>

(***************************************************************************)
(* The keys: key_up of the PlayPause, Stop, Previous and Next actions      *)
(***************************************************************************)
KeyUp(method, busOk) ==
    LET r == call_mpris_method(method, [ok |-> busOk, names |-> busNames], status,
                               LAST_ACTIVE_PLAYER)
    IN  /\ lastCall = Idle
        /\ LAST_ACTIVE_PLAYER' = r.last
        /\ observedPlaying' = IF r.result.ok /\ status[r.result.name] = "Playing"
                              THEN observedPlaying \cup {r.result.name}
                              ELSE observedPlaying
        /\ lastCall' = [op |-> "key_up", method |-> method, result |-> r.result,
                        command |-> r.command, last_before |-> LAST_ACTIVE_PLAYER]
        /\ UNCHANGED <<busNames, status, art, sinkInputs, DIAL_STATES, ENCODER_PRESSED,
                       visible, ppImage, loopVars, payloads>>

(***************************************************************************)
(* The host shows and hides surfaces.  Every action type answers           *)
(* will_appear with update_all; no action type handles the disappearance.  *)
(***************************************************************************)
WillAppear(instance_id, busOk, fetchOk) ==
    LET shown == (visible \cup {instance_id}) \cap PlayPauseInstances # {}
        r == update_all([ok |-> busOk, names |-> busNames], status, LAST_ACTIVE_PLAYER,
                        art, fetchOk, shown, ppImage)
    IN  /\ lastCall = Idle
        /\ instance_id \notin visible
        /\ visible' = visible \cup {instance_id}
        /\ LAST_ACTIVE_PLAYER' = r.last
        /\ ppImage' = r.image
        /\ observedPlaying' = IF r.result.ok /\ status[r.result.name] = "Playing"
                              THEN observedPlaying \cup {r.result.name}
                              ELSE observedPlaying
        /\ lastCall' = [op |-> "will_appear", instance_id |-> instance_id, result |-> r.result]
        /\ UNCHANGED <<busNames, status, art, sinkInputs, DIAL_STATES, ENCODER_PRESSED, loopVars, payloads>>

WillDisappear(instance_id) ==
    /\ lastCall = Idle
    /\ instance_id \in visible
    /\ visible' = visible \ {instance_id}
    /\ lastCall' = [op |-> "will_disappear", instance_id |-> instance_id]
    /\ UNCHANGED <<busNames, status, art, LAST_ACTIVE_PLAYER, sinkInputs, DIAL_STATES,
                   ENCODER_PRESSED, observedPlaying, ppImage, loopVars, payloads>>

(***************************************************************************)
(* The files and remote resources change; a task resolves an art reference *)
(***************************************************************************)
SetPayload(loc, bytes) ==
    /\ lastCall = Idle
    /\ payloads[loc] # bytes
    /\ payloads' = [payloads EXCEPT ![loc] = bytes]
    /\ UNCHANGED <<lastCall, busNames, status, art, LAST_ACTIVE_PLAYER, sinkInputs, DIAL_STATES,
                   ENCODER_PRESSED, observedPlaying, visible, ppImage, loopVars>>

FetchAndConvertToDataUrl(url) ==
    /\ lastCall = Idle
    /\ lastCall' = [op |-> "fetch_and_convert_to_data_url", url |-> url,
                    result |-> fetch_and_convert_to_data_url(url, payloads)]
    /\ UNCHANGED <<busNames, status, art, LAST_ACTIVE_PLAYER, sinkInputs, DIAL_STATES,
                   ENCODER_PRESSED, observedPlaying, visible, ppImage, loopVars, payloads>>

(***************************************************************************)
(* watch_album_art.  loopPc is "connect" before Connection::session,       *)
(* "refresh" before update_all, "select" before find_active_player,        *)
(* "subscribe" before the proxy, the rules and the stream, "receive" in    *)
(* the while-let over the stream, "done" after a return.                   *)
(***************************************************************************)
\* a variant that never takes the Stopped branch
IsStopped_never(playback) == FALSE

IsStopped(playback) == playback = "Stopped"

\* a variant that leaves the receive loop on the exit of any name
DispatchOutcome_any_exit(msg, selected) ==
    IF msg.member = "NameOwnerChanged"
    THEN IF msg.new_owner_is_empty THEN "break" ELSE "continue"
    ELSE IF msg.member # "PropertiesChanged" THEN "continue"
    ELSE IF msg.interface # PLAYER_INTERFACE THEN "continue"
    ELSE IF IsStopped(msg.PlaybackStatus) THEN "refresh"
    ELSE "push"

\* what one pass of the receive loop does with a message
DispatchOutcome(msg, selected) ==
    IF msg.member = "NameOwnerChanged"
    THEN IF msg.name = selected /\ msg.new_owner_is_empty THEN "break" ELSE "continue"
    ELSE IF msg.member # "PropertiesChanged" THEN "continue"
    ELSE IF msg.interface # PLAYER_INTERFACE THEN "continue"
    ELSE IF IsStopped(msg.PlaybackStatus) THEN "refresh"
    ELSE "push"

LoopConnect(ok) ==
    /\ lastCall = Idle
    /\ loopPc = "connect"
    /\ connected' = ok
    /\ loopPc' = IF ok THEN "refresh" ELSE "done"
    /\ UNCHANGED <<lastCall, busNames, status, art, LAST_ACTIVE_PLAYER, sinkInputs, DIAL_STATES,
                   ENCODER_PRESSED, observedPlaying, visible, ppImage, loop_player,
                   matchRules, nameOwnerRule, stream, payloads>>

LoopRefresh(busOk, fetchOk) ==
    LET shown == visible \cap PlayPauseInstances # {}
        r == update_all([ok |-> busOk, names |-> busNames], status, LAST_ACTIVE_PLAYER,
                        art, fetchOk, shown, ppImage)
    IN  /\ lastCall = Idle
        /\ loopPc = "refresh"
        /\ LAST_ACTIVE_PLAYER' = r.last
        /\ ppImage' = r.image
        /\ observedPlaying' = IF r.result.ok /\ status[r.result.name] = "Playing"
                              THEN observedPlaying \cup {r.result.name}
                              ELSE observedPlaying
        /\ loopPc' = "select"
        /\ UNCHANGED <<lastCall, busNames, status, art, sinkInputs, DIAL_STATES, ENCODER_PRESSED,
                       visible, loop_player, matchRules, nameOwnerRule, connected, stream, payloads>>

LoopSelect(busOk) ==
    LET r == find_active_player([ok |-> connected /\ busOk, names |-> busNames], status,
                                LAST_ACTIVE_PLAYER)
    IN  /\ lastCall = Idle
        /\ loopPc = "select"
        /\ LAST_ACTIVE_PLAYER' = r.last
        /\ observedPlaying' = IF r.result.ok /\ status[r.result.name] = "Playing"
                              THEN observedPlaying \cup {r.result.name}
                              ELSE observedPlaying
        /\ loop_player' = IF r.result.ok THEN r.result.name ELSE loop_player
        /\ loopPc' = IF r.result.ok THEN "subscribe" ELSE "refresh"
        /\ UNCHANGED <<lastCall, busNames, status, art, sinkInputs, DIAL_STATES, ENCODER_PRESSED,
                       visible, ppImage, matchRules, nameOwnerRule, connected, stream, payloads>>

LoopSubscribe(proxyOk, ruleOk, ownerRuleOk) ==
    /\ lastCall = Idle
    /\ loopPc = "subscribe"
    /\ IF ~proxyOk
       THEN /\ loopPc' = "done"
            /\ UNCHANGED <<matchRules, nameOwnerRule, stream>>
       ELSE IF ~(connected /\ ruleOk)
       THEN /\ loopPc' = "refresh"
            /\ UNCHANGED <<matchRules, nameOwnerRule, stream>>
       ELSE /\ matchRules' = matchRules \cup {loop_player}
            /\ nameOwnerRule' = (nameOwnerRule \/ ownerRuleOk)
            /\ stream' = <<>>
            /\ loopPc' = "receive"
    /\ UNCHANGED <<lastCall, busNames, status, art, LAST_ACTIVE_PLAYER, sinkInputs, DIAL_STATES,
                   ENCODER_PRESSED, observedPlaying, visible, ppImage, loop_player,
                   connected, payloads>>

LoopDispatch(busOk, fetchOk) ==
    /\ lastCall = Idle
    /\ loopPc = "receive"
    /\ stream # <<>>
    /\ LET msg == Head(stream)
           outcome == DispatchOutcome(msg, loop_player)
           shown == visible \cap PlayPauseInstances # {}
           r == update_all([ok |-> busOk, names |-> busNames], status, LAST_ACTIVE_PLAYER,
                           art, fetchOk, shown, ppImage)
       IN  /\ loopPc' = IF outcome = "break" THEN "refresh" ELSE "receive"
           /\ stream' = IF outcome = "break" THEN <<>> ELSE Tail(stream)
           /\ LAST_ACTIVE_PLAYER' = IF outcome = "refresh" THEN r.last ELSE LAST_ACTIVE_PLAYER
           /\ observedPlaying' = IF outcome = "refresh" /\ r.result.ok
                                     /\ status[r.result.name] = "Playing"
                                 THEN observedPlaying \cup {r.result.name}
                                 ELSE observedPlaying
           /\ ppImage' = IF outcome = "refresh" THEN r.image
                         ELSE IF outcome = "push" /\ shown
                              THEN update_play_pause(get_album_art(msg.Metadata, fetchOk))
                              ELSE ppImage
           /\ lastCall' = [op |-> "dispatch", msg |-> msg, selected |-> loop_player,
                           outcome |-> outcome,
                           result |-> IF outcome = "refresh" THEN r.result ELSE Err("NotRun"),
                           last_before |-> LAST_ACTIVE_PLAYER, image_before |-> ppImage,
                           dial_updates |-> IF outcome = "push" THEN visible \cap Instances ELSE {}]
    /\ UNCHANGED <<busNames, status, art, sinkInputs, DIAL_STATES, ENCODER_PRESSED, visible,
                   loop_player, matchRules, nameOwnerRule, connected, payloads>>

\* stream.next() yields None: the connection is closed
LoopStreamEnd ==
    /\ lastCall = Idle
    /\ loopPc = "receive"
    /\ connected
    /\ connected' = FALSE
    /\ matchRules' = {}
    /\ nameOwnerRule' = FALSE
    /\ stream' = <<>>
    /\ loopPc' = "refresh"
    /\ UNCHANGED <<lastCall, busNames, status, art, LAST_ACTIVE_PLAYER, sinkInputs, DIAL_STATES,
                   ENCODER_PRESSED, observedPlaying, visible, ppImage, loop_player, payloads>>

\* the outcome of the call that has returned is dropped
Return ==
    /\ lastCall # Idle
    /\ lastCall' = Idle
    /\ UNCHANGED <<busNames, status, art, LAST_ACTIVE_PLAYER, sinkInputs, DIAL_STATES,
                   ENCODER_PRESSED, observedPlaying, visible, ppImage, loopVars, payloads>>

Init ==
    /\ busNames = <<>>
    /\ status = [n \in BusNameUniverse |-> "NoReply"]
    /\ art = [n \in BusNameUniverse |-> FALSE]
    /\ LAST_ACTIVE_PLAYER = None
    /\ sinkInputs = <<>>
    /\ DIAL_STATES = [i \in Instances |-> NoEntry]
    /\ ENCODER_PRESSED = FALSE
    /\ lastCall = Idle
    /\ observedPlaying = {}
    /\ visible = {}
    /\ ppImage = NoImage
    /\ loopPc = "connect"
    /\ loop_player = None
    /\ matchRules = {}
    /\ nameOwnerRule = FALSE
    /\ connected = FALSE
    /\ stream = <<>>
    /\ payloads = [l \in Locations |-> Missing]

NextSelector ==
    \/ \E n \in BusNameUniverse, pos \in 1..MaxBus + 1 : pos <= Len(busNames) + 1 /\ PlayerAppear(n, pos)
    \/ \E pos \in 1..MaxBus + 1 : PlayerDisappear(pos)
    \/ \E n \in BusNameUniverse, s \in Statuses : PlayerSetStatus(n, s)
    \/ \E busOk \in BOOLEAN : FindActivePlayer(busOk)
    \/ Return

SpecSelector == Init /\ [][NextSelector]_vars

\* a player of the media application is on the bus and the dials are shown
InitDial ==
    /\ busNames = << <<0, 97>> >>
    /\ status = [n \in BusNameUniverse |-> IF n = <<0, 97>> THEN "Playing" ELSE "NoReply"]
    /\ art = [n \in BusNameUniverse |-> n = <<0, 97>>]
    /\ LAST_ACTIVE_PLAYER = None
    /\ sinkInputs = <<>>
    /\ DIAL_STATES = [i \in Instances |-> NoEntry]
    /\ ENCODER_PRESSED = FALSE
    /\ lastCall = Idle
    /\ observedPlaying = {}
    /\ visible = Instances \cup TestInstances
    /\ ppImage = NoImage
    /\ loopPc = "connect"
    /\ loop_player = None
    /\ matchRules = {}
    /\ nameOwnerRule = FALSE
    /\ connected = FALSE
    /\ stream = <<>>
    /\ payloads = [l \in Locations |-> Missing]

NextMatcher ==
    \/ \E n \in BusNameUniverse, pos \in 1..MaxBus + 1 : pos <= Len(busNames) + 1 /\ PlayerAppear(n, pos)
    \/ \E pos \in 1..MaxBus + 1 : PlayerDisappear(pos)
    \/ \E n \in BusNameUniverse, b \in BOOLEAN : PlayerSetArt(n, b)
    \/ \E id \in SinkIds, binary \in BinaryUniverse, pos \in 1..MaxSinks + 1 :
            pos <= Len(sinkInputs) + 1 /\ SinkInputAppear(id, binary, pos)
    \/ \E pos \in 1..MaxSinks + 1 : SinkInputDisappear(pos)
    \/ \E id \in SinkIds, binary \in BinaryUniverse, pactlOk \in BOOLEAN, busOk \in BOOLEAN :
            GetAlbumArtForSinkInput(id, binary, pactlOk, busOk)
    \/ Return

SpecMatcher == Init /\ [][NextMatcher]_vars

NextDial ==
    \/ \E id \in SinkIds, binary \in BinaryUniverse, pos \in 1..MaxSinks + 1 :
            pos <= Len(sinkInputs) + 1 /\ SinkInputAppear(id, binary, pos)
    \/ \E pos \in 1..MaxSinks + 1 : SinkInputDisappear(pos)
    \/ \E i \in Instances : DialDown(i)
    \/ \E i \in Instances : DialUp(i)
    \/ \E i \in Instances, ticks \in Ticks, pactlOk, pactlImageOk, busOk, iconOk \in BOOLEAN :
            DialRotate(i, ticks, pactlOk, pactlImageOk, busOk, iconOk)
    \/ \E i \in TestInstances, ticks \in Ticks : DialTestRotate(i, ticks)
    \/ \E i \in TestInstances : DialTestDown(i)
    \/ \E i \in TestInstances : DialTestUp(i)
    \/ Return

SpecDial == InitDial /\ [][NextDial]_vars

\* no surface is shown yet; the mixer lists one sink input of the media application
InitSurface ==
    /\ busNames = << <<0, 97>> >>
    /\ status = [n \in BusNameUniverse |-> IF n = <<0, 97>> THEN "Playing" ELSE "NoReply"]
    /\ art = [n \in BusNameUniverse |-> n = <<0, 97>>]
    /\ LAST_ACTIVE_PLAYER = None
    /\ sinkInputs = << [id |-> 1, binary |-> <<97>>] >>
    /\ DIAL_STATES = [i \in Instances |-> NoEntry]
    /\ ENCODER_PRESSED = FALSE
    /\ lastCall = Idle
    /\ observedPlaying = {}
    /\ visible = {}
    /\ ppImage = NoImage
    /\ loopPc = "connect"
    /\ loop_player = None
    /\ matchRules = {}
    /\ nameOwnerRule = FALSE
    /\ connected = FALSE
    /\ stream = <<>>
    /\ payloads = [l \in Locations |-> Missing]

\* surfaces come and go while the dials are used
NextSurface ==
    \/ \E i \in Instances \cup TestInstances \cup PlayPauseInstances, busOk, fetchOk \in BOOLEAN :
            WillAppear(i, busOk, fetchOk)
    \/ \E i \in Instances \cup TestInstances \cup PlayPauseInstances : WillDisappear(i)
    \/ \E i \in Instances : DialDown(i)
    \/ \E i \in Instances : DialUp(i)
    \/ \E i \in Instances, ticks \in Ticks, pactlOk, pactlImageOk, busOk, iconOk \in BOOLEAN :
            DialRotate(i, ticks, pactlOk, pactlImageOk, busOk, iconOk)
    \/ \E i \in TestInstances : DialTestDown(i)
    \/ \E i \in TestInstances : DialTestUp(i)
    \/ Return

SpecSurface == InitSurface /\ [][NextSurface]_vars

(***************************************************************************)
(* Properties of find_active_player.  In the state right after a call the  *)
(* bus is the one the call enumerated.                                     *)
(***************************************************************************)
Candidates == SelectSeq(busNames, IsMprisPlayer)

PlayingCandidates == { n \in BusNameUniverse : Contains(Candidates, n) /\ status[n] = "Playing" }

\* the last step was a find_active_player call that enumerated the bus
Selected == lastCall.op = "find_active_player" /\ lastCall.result.err # "TransportFailure"

RememberedPresent == lastCall.last_before # None /\ Contains(Candidates, lastCall.last_before)

\* C1: when exactly one candidate reports Playing, find_active_player returns
\* it and LAST_ACTIVE_PLAYER holds it afterwards, whatever was remembered
\* before and wherever the handle is in the enumeration.
C1_OnePlayingIsReturnedAndRecorded ==
    (Selected /\ Cardinality(PlayingCandidates) = 1) =>
        \A p \in PlayingCandidates :
            lastCall.result = Ok(p) /\ LAST_ACTIVE_PLAYER = p

C1_Witness ==
    /\ Selected
    /\ Cardinality(PlayingCandidates) = 1
    /\ Len(Candidates) >= 2
    /\ status[Head(Candidates)] # "Playing"
    /\ lastCall.last_before # None
    /\ lastCall.last_before \notin PlayingCandidates
    /\ lastCall.result.ok

\* C2: when no candidate reports Playing (a candidate that does not answer
\* counts as not playing) and the remembered player is among the candidates,
\* find_active_player returns the remembered player, also when it is not the
\* first candidate.
C2_RememberedIsReturned ==
    (Selected /\ PlayingCandidates = {} /\ RememberedPresent) =>
        lastCall.result = Ok(lastCall.last_before)

C2_Witness ==
    /\ Selected
    /\ PlayingCandidates = {}
    /\ RememberedPresent
    /\ Head(Candidates) # lastCall.last_before
    /\ \E i \in 1..Len(Candidates) : status[Candidates[i]] = "NoReply"
    /\ lastCall.result.ok

\* C3: when no candidate reports Playing and the remembered player is unset
\* or not a candidate, find_active_player returns the first candidate of the
\* enumeration; it fails with NoPlayerFound exactly when there is no
\* candidate.
C3_FirstCandidateOrNoPlayerFound ==
    Selected =>
        /\ (PlayingCandidates = {} /\ ~RememberedPresent /\ Candidates # <<>>) =>
                lastCall.result = Ok(Head(Candidates))
        /\ (lastCall.result = Err("NoPlayerFound")) <=> (Candidates = <<>>)
        /\ lastCall.result.ok \/ lastCall.result = Err("NoPlayerFound")

C3_Witness ==
    /\ Selected
    /\ PlayingCandidates = {}
    /\ lastCall.last_before # None
    /\ ~RememberedPresent
    /\ Len(Candidates) >= 2
    /\ lastCall.result = Ok(Head(Candidates))

\* C4: find_active_player changes LAST_ACTIVE_PLAYER only when it returns a
\* handle it found Playing; returning the remembered player, the first
\* candidate or an error leaves LAST_ACTIVE_PLAYER as it was.
C4_OnlyPlayingMutatesLast ==
    lastCall.op = "find_active_player" =>
        LET foundPlaying == lastCall.result.ok /\ status[lastCall.result.name] = "Playing"
        IN  /\ foundPlaying => LAST_ACTIVE_PLAYER = lastCall.result.name
            /\ ~foundPlaying => LAST_ACTIVE_PLAYER = lastCall.last_before

C4_Witness ==
    /\ Selected
    /\ PlayingCandidates = {}
    /\ ~RememberedPresent
    /\ lastCall.last_before # None
    /\ lastCall.result.ok
    /\ lastCall.result.name # lastCall.last_before
    /\ LAST_ACTIVE_PLAYER = lastCall.last_before

\* C5: every handle find_active_player returns is among the candidates
\* enumerated by that call (a remembered handle that has gone is not
\* returned), and LAST_ACTIVE_PLAYER, when set, names a handle that an
\* earlier call found Playing.
C5_ReturnedIsLiveAndLastWasPlaying ==
    /\ (Selected /\ lastCall.result.ok) => Contains(Candidates, lastCall.result.name)
    /\ LAST_ACTIVE_PLAYER # None => LAST_ACTIVE_PLAYER \in observedPlaying

C5_Witness ==
    /\ Selected
    /\ lastCall.last_before # None
    /\ ~Contains(busNames, lastCall.last_before)
    /\ lastCall.result.ok
    /\ LAST_ACTIVE_PLAYER = lastCall.last_before

(***************************************************************************)
(* Properties of get_album_art_for_sink_input.  In the state right after a *)
(* call the mixer and the bus are the ones the call enumerated.            *)
(***************************************************************************)
Matched == lastCall.op = "get_album_art_for_sink_input"

\* the sink inputs and the MPRIS instances of the application of the call
AppSinkIds ==
    { sinkInputs[i].id : i \in { j \in 1..Len(sinkInputs) : sinkInputs[j].binary = lastCall.process_binary } }

AppPlayers ==
    { n \in BusNameUniverse :
        Contains(busNames, n) /\ StartsWith(n, MPRIS_PREFIX \o to_lowercase(lastCall.process_binary)) }

\* C6: when the application has more sink inputs than MPRIS instances,
\* get_album_art_for_sink_input returns None: no player is matched by index
\* and no player of the application is tried as a fallback.
C6_MoreSinksThanPlayersIsNone ==
    (Matched /\ Cardinality(AppSinkIds) > Cardinality(AppPlayers)) =>
        lastCall.result = NoMatch

C6_Witness ==
    /\ Matched
    /\ lastCall.pactlOk /\ lastCall.busOk
    /\ Cardinality(AppSinkIds) > Cardinality(AppPlayers)
    /\ lastCall.sink_input_id \in AppSinkIds
    /\ Cardinality({ x \in AppSinkIds : x < lastCall.sink_input_id }) < Cardinality(AppPlayers)
    /\ \A n \in AppPlayers : art[n]
    /\ lastCall.result = NoMatch

\* C7: when the application has no more sink inputs than MPRIS instances and
\* both listings succeed, the target at position i of the application's sink
\* inputs in ascending order is matched to the i-th of the application's
\* player names in lexicographic order, whatever the order of the listings;
\* a target that is not a sink input of the application yields None.
C7_OrdinalMatch ==
    (Matched /\ lastCall.pactlOk /\ lastCall.busOk) =>
        /\ (lastCall.sink_input_id \in AppSinkIds
              /\ Cardinality(AppSinkIds) <= Cardinality(AppPlayers)) =>
                /\ lastCall.result.matched \in AppPlayers
                /\ Cardinality({ q \in AppPlayers : StrLess(q, lastCall.result.matched) })
                     = Cardinality({ x \in AppSinkIds : x < lastCall.sink_input_id })
        /\ lastCall.sink_input_id \notin AppSinkIds => lastCall.result = NoMatch

C7_Witness ==
    /\ Matched
    /\ lastCall.pactlOk /\ lastCall.busOk
    /\ Cardinality(AppSinkIds) = 2
    /\ Cardinality(AppPlayers) = 2
    /\ lastCall.sink_input_id \in AppSinkIds
    /\ \E x \in AppSinkIds : x < lastCall.sink_input_id
    /\ \E i, j \in 1..Len(busNames) :
            i < j /\ busNames[i] \in AppPlayers /\ busNames[j] \in AppPlayers
            /\ StrLess(busNames[j], busNames[i])
    /\ \E i, j \in 1..Len(sinkInputs) :
            i < j /\ sinkInputs[i].id \in AppSinkIds /\ sinkInputs[j].id \in AppSinkIds
            /\ sinkInputs[j].id < sinkInputs[i].id
    /\ lastCall.result.matched = <<0, 97, 49>>
    /\ lastCall.result.art = <<0, 97, 49>>

(***************************************************************************)
(* Properties of dial_rotate.  In the state right after a rotation the     *)
(* mixer is the one the rotation listed.                                   *)
(***************************************************************************)
Browsed == lastCall.op = "dial_rotate" /\ lastCall.mode = "browse" /\ lastCall.listed

Adjusted == lastCall.op = "dial_rotate" /\ lastCall.mode = "adjust"

\* length of the list [master] ++ sink inputs
LiveLen == 1 + Len(sinkInputs)

\* C8 (as stated): a forward rotation from ordinal n-1 stores 0, a backward
\* rotation from ordinal 0 stores n-1, and every other rotation moves the
\* ordinal by exactly one position in the direction of the rotation.
C8_Original ==
    Browsed =>
        LET c == lastCall.current_index
            new == DIAL_STATES[lastCall.instance_id][1]
        IN  /\ (lastCall.ticks > 0 /\ c = LiveLen - 1) => new = 0
            /\ (lastCall.ticks < 0 /\ c = 0) => new = LiveLen - 1
            /\ (lastCall.ticks > 0 /\ c # LiveLen - 1) => new = c + 1
            /\ (lastCall.ticks < 0 /\ c # 0) => new = c - 1

\* C8 (amended): as stated for a stored ordinal that is an index of the list
\* of this rotation and for backward rotations; a forward rotation from a
\* stored ordinal c >= n (the list has shrunk) stores (c + 1) mod n.
C8_RotationWraps ==
    Browsed =>
        LET c == lastCall.current_index
            new == DIAL_STATES[lastCall.instance_id][1]
        IN  /\ (lastCall.ticks > 0 /\ c = LiveLen - 1) => new = 0
            /\ (lastCall.ticks < 0 /\ c = 0) => new = LiveLen - 1
            /\ (lastCall.ticks > 0 /\ c < LiveLen - 1) => new = c + 1
            /\ (lastCall.ticks > 0 /\ c >= LiveLen) => new = (c + 1) % LiveLen
            /\ (lastCall.ticks < 0 /\ c # 0) => new = c - 1

C8_Witness ==
    /\ Browsed
    /\ lastCall.ticks > 0
    /\ LiveLen >= 2
    /\ lastCall.current_index >= LiveLen
    /\ DIAL_STATES[lastCall.instance_id][1] = (lastCall.current_index + 1) % LiveLen
    /\ DIAL_STATES[lastCall.instance_id][1] # lastCall.current_index + 1

\* C9: after every browse-mode rotation the stored ordinal is an index of the
\* list [master] ++ sink inputs listed by that rotation.
C9_OrdinalIsValidIndex ==
    Browsed =>
        /\ DIAL_STATES[lastCall.instance_id][1] >= 0
        /\ DIAL_STATES[lastCall.instance_id][1] < LiveLen

\* C10: after every browse-mode rotation ordinal 0 is stored with target 0
\* (master) and ordinal i > 0 with the id of the (i-1)-th sink input listed
\* by that rotation; a volume-adjust rotation acts on master only when the
\* stored ordinal is 0 and otherwise on the stored stream.
C10_OrdinalAndTargetAgree ==
    /\ Browsed =>
            LET ordinal == DIAL_STATES[lastCall.instance_id][1]
                target == DIAL_STATES[lastCall.instance_id][2]
            IN  /\ ordinal = 0 => target = 0
                /\ ordinal > 0 => /\ ordinal - 1 < Len(sinkInputs)
                                  /\ target = sinkInputs[ordinal].id
    /\ Adjusted =>
            /\ lastCall.command.target = StoredSink(DIAL_STATES, lastCall.instance_id)
            /\ (lastCall.command.tool = "wpctl") <=> (StoredIndex(DIAL_STATES, lastCall.instance_id) = 0)

(***************************************************************************)
(* Properties of the dial surfaces: which events write a Selection and     *)
(* which events write the mode.  A step into a call record is the call.    *)
(***************************************************************************)
PressOrRelease == { "dial_down", "dial_up" }

\* C11: a press (dial_down), a release (dial_up) and a rotation in adjust
\* mode leave the Selection of every surface, their own included, as it was.
C11_PressReleaseAdjustKeepSelection ==
    [][ ( \/ lastCall'.op \in PressOrRelease
          \/ (lastCall'.op = "dial_rotate" /\ lastCall'.mode = "adjust") )
        => DIAL_STATES' = DIAL_STATES ]_vars

\* a release has returned on a surface whose Selection is past the default sink
C11_Witness ==
    /\ lastCall.op = "dial_up"
    /\ lastCall.instance_id \in Instances
    /\ DIAL_STATES[lastCall.instance_id] # NoEntry
    /\ StoredIndex(DIAL_STATES, lastCall.instance_id) > 0

\* C12: the Selection of a surface changes only in a rotation of that very
\* surface; a rotation of surface A never changes the Selection of B.
C12_SelectionIsPerSurface ==
    [][ \A i \in Instances :
            DIAL_STATES'[i] # DIAL_STATES[i]
                => (lastCall'.op = "dial_rotate" /\ lastCall'.instance_id = i) ]_vars

\* a browse rotation has moved one surface while the other keeps a different,
\* non-default Selection
C12_Witness ==
    /\ Browsed
    /\ lastCall.listed
    /\ \E j \in Instances \ {lastCall.instance_id} :
            /\ DIAL_STATES[j] # NoEntry
            /\ StoredIndex(DIAL_STATES, j) > 0
            /\ DIAL_STATES[j] # DIAL_STATES[lastCall.instance_id]
    /\ StoredIndex(DIAL_STATES, lastCall.instance_id) # lastCall.current_index

\* C13: the mode is per surface: a press or a release on one surface never
\* changes the mode a rotation of another surface runs in.
C13_ModeIsPerSurface ==
    [][ lastCall'.op \in PressOrRelease
        => \A i \in Instances \ {lastCall'.instance_id} :
               RotationMode(i)' = RotationMode(i) ]_vars

\* C14: after the teardown of a surface its Selection entry is gone: a
\* surface that is not shown has no entry.
C14_TeardownDestroysSelection ==
    \A i \in Instances : i \notin visible => DIAL_STATES[i] = NoEntry


LoopPlayers == { <<0, 97>>, <<0, 98>> }
LoopStatuses == { "Playing", "Stopped" }

\* the plugin has started, the PlayPause key is shown, the loop task is spawned
InitLoop ==
    /\ busNames = <<>>
    /\ status = [n \in BusNameUniverse |-> "NoReply"]
    /\ art = [n \in BusNameUniverse |-> FALSE]
    /\ LAST_ACTIVE_PLAYER = None
    /\ sinkInputs = <<>>
    /\ DIAL_STATES = [i \in Instances |-> NoEntry]
    /\ ENCODER_PRESSED = FALSE
    /\ lastCall = Idle
    /\ observedPlaying = {}
    /\ visible = PlayPauseInstances
    /\ ppImage = NoImage
    /\ loopPc = "connect"
    /\ loop_player = None
    /\ matchRules = {}
    /\ nameOwnerRule = FALSE
    /\ connected = FALSE
    /\ stream = <<>>
    /\ payloads = [l \in Locations |-> Missing]

LoopStep ==
    \/ \E ok \in BOOLEAN : LoopConnect(ok)
    \/ \E busOk, fetchOk \in BOOLEAN : LoopRefresh(busOk, fetchOk)
    \/ \E busOk \in BOOLEAN : LoopSelect(busOk)
    \/ \E proxyOk, ruleOk, ownerRuleOk \in BOOLEAN : LoopSubscribe(proxyOk, ruleOk, ownerRuleOk)
    \/ \E busOk, fetchOk \in BOOLEAN : LoopDispatch(busOk, fetchOk)

NextLoop ==
    \/ \E n \in LoopPlayers, pos \in 1..MaxBus + 1 : pos <= Len(busNames) + 1 /\ PlayerAppear(n, pos)
    \/ \E pos \in 1..MaxBus + 1 : PlayerDisappear(pos)
    \/ \E n \in LoopPlayers, s \in LoopStatuses : PlayerSetStatus(n, s)
    \/ \E n \in LoopPlayers, b \in BOOLEAN : PlayerSetArt(n, b)
    \/ \E n \in LoopPlayers : PlayerRootChanged(n)
    \/ \E busOk \in BOOLEAN : FindActivePlayer(busOk)
    \/ LoopStep
    \/ LoopStreamEnd
    \/ Return

SpecLoop == InitLoop /\ [][NextLoop]_vars

\* the runtime schedules the task of the loop: a step it can take again and
\* again, between the calls of the other tasks, is taken; and a call returns
SpecLoopFair == SpecLoop /\ SF_vars(LoopStep) /\ WF_vars(Return)

\* the loop runs while keys are pressed and the PlayPause surface comes and goes
NextTasks ==
    \/ \E n \in LoopPlayers, pos \in 1..MaxBus + 1 : pos <= Len(busNames) + 1 /\ PlayerAppear(n, pos)
    \/ \E pos \in 1..MaxBus + 1 : PlayerDisappear(pos)
    \/ \E n \in LoopPlayers, s \in LoopStatuses : PlayerSetStatus(n, s)
    \/ \E method \in Methods, busOk \in BOOLEAN : KeyUp(method, busOk)
    \/ \E i \in PlayPauseInstances, busOk, fetchOk \in BOOLEAN : WillAppear(i, busOk, fetchOk)
    \/ \E i \in PlayPauseInstances : WillDisappear(i)
    \/ LoopStep
    \/ LoopStreamEnd
    \/ Return

SpecTasks == InitLoop /\ [][NextTasks]_vars

NextArt ==
    \/ \E loc \in Locations, bytes \in Payloads \cup {Missing} : SetPayload(loc, bytes)
    \/ \E url \in UrlUniverse : FetchAndConvertToDataUrl(url)
    \/ Return

SpecArt == Init /\ [][NextArt]_vars

(***************************************************************************)
(* Properties of fetch_and_convert_to_data_url.  In the state right after  *)
(* a call the payloads are the ones the call read.                         *)
(***************************************************************************)
Fetched == lastCall.op = "fetch_and_convert_to_data_url"

\* the location a reference that is not an embedded payload is read from
LocationOf(url) == IF Head(url) = FILE THEN trim_start_matches(url) ELSE url

\* C15: fetch_and_convert_to_data_url on a local path or a remote URL whose
\* payload has zero bytes returns a failure, and a reference that already is
\* an embedded data payload is returned unchanged.
C15_EmptyPayloadFailsDataPassesThrough ==
    Fetched =>
        /\ Head(lastCall.url) = DATA
                => (lastCall.result.ok /\ lastCall.result.value = lastCall.url)
        /\ ( /\ Head(lastCall.url) # DATA
             /\ LocationOf(lastCall.url) \in Locations
             /\ payloads[LocationOf(lastCall.url)] = <<>> )
                => ~lastCall.result.ok


(***************************************************************************)
(* Properties of watch_album_art.  A step into a dispatch record is one    *)
(* pass of the receive loop; in the state right after it the bus is the    *)
(* one a refresh of that pass enumerated.                                  *)
(***************************************************************************)
Dispatched == lastCall.op = "dispatch"
Subscribed == loopPc = "receive"
ExitOfSelected == NameOwnerChanged(loop_player, TRUE)

\* C16: the loop never reaches a terminal state: after a failed connection,
\* a failed proxy creation, a transport failure or a failed selection it is
\* still running.
C16_LoopNeverTerminates == loopPc # "done"

\* C17: at most one property-change subscription is installed on the
\* connection, it is scoped to the selected handle, and a property-change
\* notification of a handle that is not the selected one is never dispatched
\* to the visual consumers.
C17_OneSubscriptionScopedToSelected ==
    /\ Cardinality(matchRules) <= 1
    /\ Subscribed => matchRules \subseteq {loop_player}
    /\ (Dispatched /\ lastCall.outcome \in {"refresh", "push"})
            => lastCall.msg.sender = lastCall.selected

C19_ExitedHandleIsReselected ==
    [] ( (loopPc \in {"subscribe", "receive"} /\ ~Contains(busNames, loop_player))
            => <> (loopPc \notin {"subscribe", "receive"} \/ Contains(busNames, loop_player)) )

\* the image a full refresh may show: the art of the handle it selected
RefreshImages(result) ==
    IF result.ok /\ status[result.name] # "NoReply" /\ art[result.name]
    THEN { ArtImage(result.name), Cleared }
    ELSE { Cleared }

\* the image an incremental push of a notification may show
PushImages(msg) ==
    IF msg.Metadata.present /\ msg.Metadata.artUrl # None
    THEN { ArtImage(msg.Metadata.artUrl), Cleared }
    ELSE { Cleared }

\* C20: on a PropertiesChanged of the player interface whose PlaybackStatus
\* is Stopped the loop runs the full refresh, which selects over the current
\* candidates (the first Playing one when there is one, recorded in
\* LAST_ACTIVE_PLAYER), and shows the image of the refresh, not of the
\* notification; with any other playback state it runs no selection and
\* pushes the art the notification carries.
C20_StoppedRefreshesOthersPush ==
    (Dispatched /\ lastCall.msg.member = "PropertiesChanged"
                /\ lastCall.msg.interface = PLAYER_INTERFACE)
    => IF lastCall.msg.PlaybackStatus = "Stopped"
       THEN /\ lastCall.outcome = "refresh"
            /\ lastCall.result.ok => Contains(Candidates, lastCall.result.name)
            /\ (lastCall.result.err # "TransportFailure" /\ PlayingCandidates # {})
                    => /\ lastCall.result.ok
                       /\ lastCall.result.name \in PlayingCandidates
                       /\ LAST_ACTIVE_PLAYER = lastCall.result.name
            /\ (lastCall.result.err # "TransportFailure" /\ Candidates # <<>>)
                    => lastCall.result.ok
            /\ ppImage \in RefreshImages(lastCall.result)
       ELSE /\ lastCall.outcome = "push"
            /\ lastCall.result = Err("NotRun")
            /\ LAST_ACTIVE_PLAYER = lastCall.last_before
            /\ ppImage \in PushImages(lastCall.msg)

\* a Stopped notification of one player was answered by a refresh that shows
\* the art of another player, the one Playing
C20_Witness ==
    /\ Dispatched
    /\ lastCall.msg.member = "PropertiesChanged"
    /\ lastCall.msg.interface = PLAYER_INTERFACE
    /\ lastCall.msg.PlaybackStatus = "Stopped"
    /\ lastCall.result.ok
    /\ lastCall.result.name # lastCall.msg.sender
    /\ ppImage = ArtImage(lastCall.result.name)
    /\ lastCall.image_before # ppImage


\* C23: whenever get_album_art_for_sink_input returns art for the stream at
\* position i of the sorted sink inputs of its application, the art is that
\* of the i-th sorted player of the application and of no other instance.
C23_ArtOnlyFromOrdinalPlayer ==
    (Matched /\ lastCall.result.art # None) =>
        /\ lastCall.result.art = lastCall.result.matched
        /\ lastCall.result.art \in AppPlayers
        /\ Cardinality({ q \in AppPlayers : StrLess(q, lastCall.result.art) })
              = Cardinality({ x \in AppSinkIds : x < lastCall.sink_input_id })


(***************************************************************************)
(* Properties of the tasks that run beside watch_album_art                 *)
(***************************************************************************)
\* the calls of the user-triggered tasks
UserOps == { "key_up", "will_appear" }

\* C21: the loop is the only writer of LAST_ACTIVE_PLAYER: no key press and
\* no appearing surface, in any interleaving with the loop, changes it.
C21_LoopIsSoleWriter ==
    [][ lastCall'.op \in UserOps => LAST_ACTIVE_PLAYER' = LAST_ACTIVE_PLAYER ]_vars


(***************************************************************************)
(* Properties of the images watch_album_art pushes                         *)
(***************************************************************************)
\* the pass of the receive loop took a PropertiesChanged of the player
\* interface sent by the selected handle
DispatchedOfSelected ==
    /\ Dispatched
    /\ lastCall.msg.member = "PropertiesChanged"
    /\ lastCall.msg.interface = PLAYER_INTERFACE
    /\ lastCall.msg.sender = lastCall.selected

\* C22: a PropertiesChanged of the selected player that carries no Metadata
\* entry (only a PlaybackStatus other than Stopped) leaves the image of the
\* PlayPause surfaces as it was.
C22_NoMetadataKeepsImage ==
    (DispatchedOfSelected /\ ~lastCall.msg.Metadata.present
                          /\ lastCall.msg.PlaybackStatus # "Stopped")
        => ppImage = lastCall.image_before

\* C24: every art image the loop pushes while it is subscribed to a handle,
\* by full refresh or by incremental update, is the art of that handle.
C24_PushedArtIsOfSubscribed ==
    (Dispatched /\ lastCall.outcome \in {"refresh", "push"} /\ ppImage.kind = "art")
        => ppImage.from = lastCall.selected

====
